---- MODULE Spec2Model ----
(***************************************************************************)
(* Model of adafruit_button: ButtonBase (button_base.py), TriangleButton   *)
(* (triangle_button.py) and TriangleButtonBase (triangle_button_base.py).  *)
(*                                                                         *)
(* Three specifications share the variables below:                         *)
(*   Spec         the button object: construction, the label setter, the   *)
(*                colour setters and the selected setter;                  *)
(*   SpecColor    the pure function _check_color;                          *)
(*   SpecContains the hit test contains of a triangle button.              *)
(* A specification leaves the variables of the other two at their idle     *)
(* values.                                                                 *)
(***************************************************************************)
EXTENDS Integers, Sequences, FiniteSets, TLC

VARIABLES
    pc,        \* "new" before the constructor ran, "live" after, "failed" if it raised
    btn,       \* the button object: its attributes, its body and its label
    group,     \* the displayio Group the button is: the ordered child nodes
    last,      \* the last call made on the button: operation, argument, outcome
    cc_pc,     \* _check_color: "idle" | "call" | "done"
    cc_in,     \* _check_color: the argument
    cc_out,    \* _check_color: the value returned
    ct_pc,     \* contains: "idle" | "built" | "done"
    tri,       \* contains: the vertices <<x0, y0, x1, y1, x2, y2>> of the button
    query,     \* contains: the argument
    result     \* contains: the outcome [err, value]

vars == <<pc, btn, group, last, cc_pc, cc_in, cc_out, ct_pc, tri, query, result>>

btnVars == <<pc, btn, group, last>>
ccVars == <<cc_pc, cc_in, cc_out>>
ctVars == <<ct_pc, tri, query, result>>

(***************************************************************************)
(* Python values.  A colour argument is None, an int or a 3-tuple.         *)
(***************************************************************************)
None == [t |-> "none"]
IntC(n) == [t |-> "int", v |-> n]
TupC(r, g, b) == [t |-> "tuple", r |-> r, g |-> g, b |-> b]

IsNone(c) == c.t = "none"

Abs(n) == IF n < 0 THEN -n ELSE n
Min3(a, b, c) == IF a <= b /\ a <= c THEN a ELSE IF b <= c THEN b ELSE c
Max3(a, b, c) == IF a >= b /\ a >= c THEN a ELSE IF b >= c THEN b ELSE c

\* Bounds of the model.
MaxOver == 2       \* how far a colour component may lie outside 0..255
MaxCoord == 2      \* vertex coordinates are drawn from 0..MaxCoord
MaxTouches == 2    \* longest batch of touch points given to contains

\* Program constants.
Mask24 == 16777215 \* 0xFFFFFF
ByteMask == 255    \* 0xFF

(***************************************************************************)
(* _check_color (button_base.py 33-38).  Python's x << k on an unbounded   *)
(* int is x * 2^k, and b & 0xFF is b modulo 256 (two's complement).        *)
(***************************************************************************)
check_color_noshift(color) ==
    IF color.t = "tuple"
        THEN IntC(color.r + color.g + (color.b % (ByteMask + 1)))
        ELSE color

_check_color(color) ==
    IF color.t = "tuple"
        THEN IntC((color.r * 65536) + (color.g * 256) + (color.b % (ByteMask + 1)))
        ELSE color

\* (~x) & 0xFFFFFF on a Python int: ~x is -x - 1, and & 0xFFFFFF is modulo 2^24.
Invert24(x) == (-x - 1) % (Mask24 + 1)

(***************************************************************************)
(* SpecColor: one call of _check_color on an argument drawn from the       *)
(* bounded set ColorArgs.                                                  *)
(***************************************************************************)
InRange == {0, 1, 2, 127, 128, 254, 255}
OutOfRange == {-k : k \in 1..MaxOver} \cup {255 + k : k \in 1..MaxOver}
Components == InRange \cup OutOfRange

ColorArgs ==
    {None} \cup {IntC(n) : n \in {0, 255, 65280, Mask24}}
           \cup {TupC(r, g, b) : r \in Components, g \in Components, b \in Components}

IdleBtn == [cls |-> "none"]
IdleLast == [op |-> "none"]

BtnIdle == pc = "idle" /\ btn = IdleBtn /\ group = <<>> /\ last = IdleLast
ColorIdle == cc_pc = "idle" /\ cc_in = None /\ cc_out = None
ContainsIdle == ct_pc = "idle" /\ tri = <<>> /\ query = None /\ result = None

InitColor ==
    /\ BtnIdle
    /\ ContainsIdle
    /\ cc_pc = "call"
    /\ cc_in \in ColorArgs
    /\ cc_out = None

CheckColorCall ==
    /\ cc_pc = "call"
    /\ cc_out' = _check_color(cc_in)
    /\ cc_pc' = "done"
    /\ UNCHANGED <<cc_in, btnVars, ctVars>>

NextColor == CheckColorCall

SpecColor == InitColor /\ [][NextColor]_vars

(***************************************************************************)
(* Bitwise or of two naturals, and the packed colour the claims speak of.  *)
(***************************************************************************)
RECURSIVE BitOr(_, _)
BitOr(a, b) ==
    IF a = 0 THEN b
    ELSE IF b = 0 THEN a
    ELSE (IF (a % 2 = 1) \/ (b % 2 = 1) THEN 1 ELSE 0) + 2 * BitOr(a \div 2, b \div 2)

\* ((r << 16) | (g << 8) | b) & 0xFFFFFF: the mask distributes over the or.
Packed24(r, g, b) ==
    BitOr(BitOr((r * 65536) % (Mask24 + 1), (g * 256) % (Mask24 + 1)), b % (Mask24 + 1))

ComponentsOf(c) == {c.r, c.g, c.b}

\* C5: for every triple with each component in 0..255, _check_color returns the
\* packed integer (r << 16) | (g << 8) | b; an int and None are returned unchanged.
C5_CheckColorInRange ==
    cc_pc = "done" =>
        /\ (cc_in.t = "tuple" /\ ComponentsOf(cc_in) \subseteq 0..255) =>
              cc_out = IntC(BitOr(BitOr(cc_in.r * 65536, cc_in.g * 256), cc_in.b))
        /\ cc_in.t \in {"int", "none"} => cc_out = cc_in

\* (127, 254, 255) is packed to 0x7FFEFF.
C5_Witness ==
    /\ cc_pc = "done"
    /\ cc_in = TupC(127, 254, 255)
    /\ cc_out = IntC(8388351)

\* C6: for every integer triple, components outside 0..255 included,
\* _check_color returns ((r << 16) | (g << 8) | b) & 0xFFFFFF, a value in
\* 0x000000..0xFFFFFF.
C6_CheckColorMasked ==
    (cc_pc = "done" /\ cc_in.t = "tuple") =>
        /\ cc_out = IntC(Packed24(cc_in.r, cc_in.g, cc_in.b))
        /\ cc_out.v \in 0..Mask24

(***************************************************************************)
(* The button object.                                                      *)
(*                                                                         *)
(* btn holds the attributes the constructors set; btn.body is the Triangle *)
(* (None, or its fill and outline) and btn._label is None, the str the     *)
(* ButtonBase constructor stored, or the Label object.  group holds the    *)
(* identities of the child nodes in order: BodyNode for the body and the   *)
(* Label's id for a label.                                                 *)
(***************************************************************************)
MaxLen == 3        \* longest label text given to the label setter
MaxFit == 2        \* widest box, in glyphs that fit it
MaxScale == 2      \* largest label_scale

\* terminalio.FONT, the font the label setter falls back to: a fixed 6 x 14 cell.
GlyphW == 6
GlyphH == 14

Dot == 46          \* ord(".")
BodyNode == 0

\* A text is a sequence of character codes; Text(n) is "ABC..." cut to n characters.
Text(n) == [i \in 1..n |-> 64 + i]
NoneText == [t |-> "none"]
Str(s) == [t |-> "str", s |-> s]
TextArgs == {NoneText} \cup {Str(Text(n)) : n \in 0..MaxLen}
\* The TriangleButton setter reads of a text only whether it is empty.
TriangleTextArgs == {NoneText, Str(Text(0)), Str(Text(1)), Str(Text(2))}

\* Python's "not newtext": None and "" are falsy.
Falsy(text) == text.t = "none" \/ text.s = <<>>

NoBody == [t |-> "none"]
Triangle(fill, outline) == [t |-> "triangle", fill |-> fill, outline |-> outline]

\* Label(font, text=..., scale=...): bitmap_label's colour defaults to 0xFFFFFF and
\* its position to (0, 0).
Label(id, text, scale) ==
    [t |-> "label", id |-> id, text |-> text, scale |-> scale,
     color |-> IntC(Mask24), x |-> 0, y |-> 0]

\* Label.bounding_box of a fixed-cell font: <<x, y, width, height>>.
bounding_box(label) == <<0, 0, GlyphW * Len(label.text), GlyphH>>

\* An outcome of a call: the object and the group after it, the exception raised
\* ("ok" for none) and whether _subclass_selected_behavior was invoked.
Outcome(b, g, err, hook) == [b |-> b, g |-> g, err |-> err, hook |-> hook]

\* The truth values bool(self) may take.  CircuitPython's displayio.Group is always
\* true; a Group of a build that defines only __len__ is false when it is empty.
GroupBool(g) == IF g = <<>> THEN {TRUE, FALSE} ELSE {TRUE}

\* bool(self._label): None is false, a str is false when empty, a Label is true.
LabelTruthy(l) == IF l.t = "none" THEN FALSE ELSE IF l.t = "str" THEN l.s # <<>> ELSE TRUE

\* An id no node of the group and no Label the button holds has.
FreshId(b, g) ==
    LET used == {g[i] : i \in 1..Len(g)} \cup {BodyNode}
                \cup (IF b._label.t = "label" THEN {b._label.id} ELSE {})
    IN  CHOOSE n \in 1..(Len(g) + 2) : n \notin used /\ \A m \in 1..(n - 1) : m \in used

\* Lines 91-94 of button_base.py (237-240 of triangle_button.py): detach the Label
\* that is the group's last child, then forget it.
DetachLabel(b, g, selfTrue) ==
    IF LabelTruthy(b._label) /\ selfTrue
        THEN IF g = <<>>
                THEN Outcome(b, g, "IndexError", FALSE)    \* self[-1] of an empty group
             ELSE IF b._label.t = "label" /\ g[Len(g)] = b._label.id
                THEN Outcome([b EXCEPT !._label = None], SubSeq(g, 1, Len(g) - 1), "ok", FALSE)
             ELSE Outcome([b EXCEPT !._label = None], g, "ok", FALSE)
        ELSE Outcome([b EXCEPT !._label = None], g, "ok", FALSE)

\* ButtonBase.selected_label setter (button_base.py 153-155).
set_selected_label(b, new_color) == [b EXCEPT !._selected_label = _check_color(new_color)]

\* dims after lines 101-103 (109-111): the bounding box scaled by Label.scale.
Dims(label) ==
    LET bb == bounding_box(label)
    IN  <<bb[1], bb[2], bb[3] * label.scale, bb[4] * label.scale>>

Oversized(b, label) == Dims(label)[3] >= b.width \/ Dims(label)[4] >= b.height

\* Line 108: "{}.".format(text[:-2]).
truncated_no_dot(text) == SubSeq(text, 1, Len(text) - 2)

Truncated(text) == Append(SubSeq(text, 1, Len(text) - 2), Dot)

\* Lines 105-111: the while loop, run to its exit.
RECURSIVE truncate_loop(_, _)
truncate_loop(b, label) ==
    IF Len(label.text) > 1 /\ Oversized(b, label)
        THEN truncate_loop(b, [label EXCEPT !.text = Truncated(label.text)])
        ELSE label

\* Lines 121-122 of button_base.py: ~ of a tuple raises TypeError.
derive_selected_label_base(b, g) ==
    IF IsNone(b._selected_label) /\ ~IsNone(b._label_color)
        THEN IF b._label_color.t = "tuple"
                THEN Outcome(b, g, "TypeError", FALSE)
                ELSE Outcome(set_selected_label(b, IntC(Invert24(b._label_color.v))),
                             g, "ok", FALSE)
        ELSE Outcome(b, g, "ok", FALSE)

\* ButtonBase.label setter (button_base.py 89-122).
base_label_setter_fit_check(b, g, newtext, selfTrue) ==
    LET d == DetachLabel(b, g, selfTrue)
    IN  IF d.err # "ok" THEN d
        ELSE IF Falsy(newtext) \/ IsNone(d.b._label_color) THEN d
        ELSE
          LET made == Label(FreshId(d.b, d.g), newtext.s, d.b._label_scale)
              fitted == IF Oversized(d.b, made) THEN truncate_loop(d.b, made) ELSE made
          IN  IF Oversized(d.b, fitted)
                 THEN Outcome([d.b EXCEPT !._label = fitted], d.g, "RuntimeError", FALSE)
                 ELSE
                   LET placed == [fitted EXCEPT
                                    !.x = (d.b.width - Dims(fitted)[3]) \div 2,
                                    !.y = d.b.height \div 2,
                                    !.color = IF ~d.b._selected THEN d.b._label_color
                                                                ELSE d.b._selected_label]
                   IN  derive_selected_label_base([d.b EXCEPT !._label = placed],
                                                  Append(d.g, placed.id))

base_label_setter(b, g, newtext, selfTrue) ==
    LET d == DetachLabel(b, g, selfTrue)
    IN  IF d.err # "ok" THEN d
        ELSE IF Falsy(newtext) \/ IsNone(d.b._label_color) THEN d
        ELSE
          LET made == Label(FreshId(d.b, d.g), newtext.s, d.b._label_scale)
              fitted == IF Oversized(d.b, made) THEN truncate_loop(d.b, made) ELSE made
          IN  IF Oversized(d.b, made) /\ Len(fitted.text) <= 1
                 THEN Outcome([d.b EXCEPT !._label = fitted], d.g, "RuntimeError", FALSE)
                 ELSE
                   LET placed == [fitted EXCEPT
                                    !.x = (d.b.width - Dims(fitted)[3]) \div 2,
                                    !.y = d.b.height \div 2,
                                    !.color = IF ~d.b._selected THEN d.b._label_color
                                                                ELSE d.b._selected_label]
                   IN  derive_selected_label_base([d.b EXCEPT !._label = placed],
                                                  Append(d.g, placed.id))

\* TriangleButton.label setter (triangle_button.py 235-255).
triangle_label_setter(b, g, newtext, selfTrue) ==
    LET d == DetachLabel(b, g, selfTrue)
    IN  IF d.err # "ok" THEN d
        ELSE IF Falsy(newtext) \/ IsNone(d.b._label_color) THEN d
        ELSE
          LET made == Label(FreshId(d.b, d.g), newtext.s, d.b._label_scale)
              placed == [made EXCEPT
                           !.x = (d.b.x0 + d.b.x1 + d.b.x2) \div 3,
                           !.y = (d.b.y0 + d.b.y1 + d.b.y2) \div 3,
                           !.color = IF ~d.b._selected THEN d.b._label_color
                                                       ELSE d.b._selected_label]
              b1 == [d.b EXCEPT !._label = placed]
              g1 == Append(d.g, placed.id)
          IN  IF IsNone(b1._selected_label) /\ ~IsNone(b1._label_color)
                 THEN Outcome(set_selected_label(
                                  b1, IntC(Invert24(_check_color(b1._label_color).v))),
                              g1, "ok", FALSE)
                 ELSE Outcome(b1, g1, "ok", FALSE)

label_setter(b, g, newtext, selfTrue) ==
    IF b.cls = "TriangleButton"
        THEN triangle_label_setter(b, g, newtext, selfTrue)
        ELSE base_label_setter(b, g, newtext, selfTrue)

\* ButtonBase.label getter (button_base.py 84-87): getattr(self._label, "text",
\* None); None and a str have no attribute text.
label_getter(b) == IF b._label.t = "label" THEN Str(b._label.text) ELSE None

\* TriangleButton._subclass_selected_behavior (triangle_button.py 179-189).
subclass_selected_outline_from_fill(b) ==
    IF b.cls = "TriangleButton"
        THEN LET new_fill == IF b._selected THEN b._selected_fill ELSE b._fill_color
                 new_out == IF b._selected THEN b._selected_outline ELSE b._fill_color
             IN  IF b.body.t # "none"
                    THEN [b EXCEPT !.body.fill = new_fill, !.body.outline = new_out]
                    ELSE b
        ELSE b

_subclass_selected_behavior(b) ==
    IF b.cls = "TriangleButton"
        THEN LET new_fill == IF b._selected THEN b._selected_fill ELSE b._fill_color
                 new_out == IF b._selected THEN b._selected_outline ELSE b._outline_color
             IN  IF b.body.t # "none"
                    THEN [b EXCEPT !.body.fill = new_fill, !.body.outline = new_out]
                    ELSE b
        ELSE b    \* ButtonBase: pass

\* ButtonBase.selected setter (button_base.py 133-146; triangle_button_base.py 141-154).
selected_setter_no_bail(b, g, value) ==
    LET b1 == [b EXCEPT !._selected = value]
        new_label == IF b1._selected THEN b1._selected_label ELSE b1._label_color
        b2 == IF b1._label.t # "none" /\ b1._label.t # "str"
                 THEN [b1 EXCEPT !._label.color = new_label] ELSE b1
    IN  Outcome(_subclass_selected_behavior(b2), g, "ok", TRUE)

selected_setter(b, g, value) ==
    IF value = b._selected
        THEN Outcome(b, g, "ok", FALSE)    \* bail now, nothing more to do
        ELSE
          LET b1 == [b EXCEPT !._selected = value]
              new_label == IF b1._selected THEN b1._selected_label ELSE b1._label_color
          IN  IF b1._label.t = "none"
                 THEN Outcome(_subclass_selected_behavior(b1), g, "ok", TRUE)
              ELSE IF b1._label.t = "str"
                 \* a str has no attribute color: the hook is not reached
                 THEN Outcome(b1, g, "AttributeError", FALSE)
              ELSE Outcome(_subclass_selected_behavior([b1 EXCEPT !._label.color = new_label]),
                           g, "ok", TRUE)

\* ButtonBase.label_color setter (button_base.py 162-165): self._label may be None
\* (or the constructor's str), which has no attribute color.
label_color_setter(b, g, new_color) ==
    LET b1 == [b EXCEPT !._label_color = _check_color(new_color)]
    IN  IF b1._label.t = "label"
           THEN Outcome([b1 EXCEPT !._label.color = b1._label_color], g, "ok", FALSE)
           ELSE Outcome(b1, g, "AttributeError", FALSE)

selected_label_setter(b, g, new_color) ==
    Outcome(set_selected_label(b, new_color), g, "ok", FALSE)

fill_color_setter_no_redraw(b, g, new_color) ==
    Outcome([b EXCEPT !._fill_color = _check_color(new_color)], g, "ok", FALSE)

\* TriangleButton.fill_color setter (triangle_button.py 195-199): self.body may be None.
fill_color_setter(b, g, new_color) ==
    LET b1 == [b EXCEPT !._fill_color = _check_color(new_color)]
    IN  IF ~b1._selected
           THEN IF b1.body.t = "none"
                   THEN Outcome(b1, g, "AttributeError", FALSE)
                   ELSE Outcome([b1 EXCEPT !.body.fill = b1._fill_color], g, "ok", FALSE)
           ELSE Outcome(b1, g, "ok", FALSE)

\* TriangleButton.outline_color setter (triangle_button.py 205-209).
outline_color_setter(b, g, new_color) ==
    LET b1 == [b EXCEPT !._outline_color = _check_color(new_color)]
    IN  IF ~b1._selected
           THEN IF b1.body.t = "none"
                   THEN Outcome(b1, g, "AttributeError", FALSE)
                   ELSE Outcome([b1 EXCEPT !.body.outline = b1._outline_color], g, "ok", FALSE)
           ELSE Outcome(b1, g, "ok", FALSE)

\* TriangleButton.selected_fill setter (triangle_button.py 215-219).
selected_fill_setter(b, g, new_color) ==
    LET b1 == [b EXCEPT !._selected_fill = _check_color(new_color)]
    IN  IF b1._selected
           THEN IF b1.body.t = "none"
                   THEN Outcome(b1, g, "AttributeError", FALSE)
                   ELSE Outcome([b1 EXCEPT !.body.fill = b1._selected_fill], g, "ok", FALSE)
           ELSE Outcome(b1, g, "ok", FALSE)

\* TriangleButton.selected_outline setter (triangle_button.py 225-229).
selected_outline_setter(b, g, new_color) ==
    LET b1 == [b EXCEPT !._selected_outline = _check_color(new_color)]
    IN  IF b1._selected
           THEN IF b1.body.t = "none"
                   THEN Outcome(b1, g, "AttributeError", FALSE)
                   ELSE Outcome([b1 EXCEPT !.body.outline = b1._selected_outline],
                                g, "ok", FALSE)
           ELSE Outcome(b1, g, "ok", FALSE)

(***************************************************************************)
(* Constructors.                                                           *)
(***************************************************************************)
\* ButtonBase.__init__ (button_base.py 56-82).  The attributes a TriangleButton
\* adds are present from the start, at None, so that every button has one shape.
\* width and height are the box the label setter reads as self.width and
\* self.height: the constructor's width and height (a TriangleButton assigns
\* them from its vertices, lines 137-138).
ButtonBase_init(cls, width, height, label, label_color, selected_label, label_scale) ==
    [cls |-> cls, width |-> width, height |-> height,
     x0 |-> 0, y0 |-> 0, x1 |-> 0, y1 |-> 0, x2 |-> 0, y2 |-> 0,
     _selected |-> FALSE,
     _label |-> label,
     _label_color |-> label_color,
     _selected_label |-> _check_color(selected_label),
     _label_scale |-> label_scale,
     body |-> NoBody,
     _fill_color |-> None, _outline_color |-> None,
     _selected_fill |-> None, _selected_outline |-> None]

\* TriangleButton._create_body (triangle_button.py 97-108).
_create_body(b) ==
    IF ~IsNone(b._outline_color) \/ ~IsNone(b._fill_color)
        THEN [b EXCEPT !.body = Triangle(b._fill_color, b._outline_color)]
        ELSE b

\* Lines 162-172: the colours, and the selected colours derived from them.
triangle_colors(b, fill_color, outline_color, selected_fill, selected_outline) ==
    LET b1 == [b EXCEPT !._fill_color = _check_color(fill_color),
                        !._outline_color = _check_color(outline_color),
                        !._selected_fill = _check_color(selected_fill),
                        !._selected_outline = _check_color(selected_outline)]
        b2 == IF IsNone(b1._selected_fill) /\ ~IsNone(fill_color)
                 THEN selected_fill_setter(
                          b1, <<>>, IntC(Invert24(_check_color(b1._fill_color).v))).b
                 ELSE b1
    IN  IF IsNone(b2._selected_outline) /\ ~IsNone(outline_color)
           THEN selected_outline_setter(
                    b2, <<>>, IntC(Invert24(_check_color(b2._outline_color).v))).b
           ELSE b2

\* TriangleButton.__init__ (triangle_button.py 110-177).
TriangleButton_init(T, label, label_color, selected_label, label_scale, fill_color, outline_color, selected_fill, selected_outline, selfTrue) ==
    LET width == Max3(T[1], T[3], T[5]) - Min3(T[1], T[3], T[5])
        height == Max3(T[2], T[4], T[6]) - Min3(T[2], T[4], T[6])
        b0 == [ButtonBase_init("TriangleButton", width, height, label, label_color,
                               selected_label, label_scale)
                 EXCEPT !.x0 = T[1], !.y0 = T[2], !.x1 = T[3], !.y1 = T[4],
                        !.x2 = T[5], !.y2 = T[6]]
        b1 == _create_body(
                  triangle_colors(b0, fill_color, outline_color, selected_fill,
                                  selected_outline))
        g1 == IF b1.body.t # "none" THEN <<BodyNode>> ELSE <<>>
    IN  triangle_label_setter(b1, g1, label, selfTrue)

(***************************************************************************)
(* Spec: a button is constructed, then any sequence of label sets, colour  *)
(* sets and selected sets is made on it.  A call that raises leaves the    *)
(* assignments it made before raising.                                     *)
(***************************************************************************)
\* Colour arguments: None, 0x00FF00 and the tuple of its complement 0xFF00FF.
ColorIn == {None, IntC(65280), TupC(255, 0, 255)}

\* ButtonBase documents label_color as an int: None, 0x00FF00 and 0xFF00FF.
BaseLabelColorIn == {None, IntC(65280), IntC(16711935)}

\* Boxes of a ButtonBase: a width holds k glyphs at scale 1 when it is 6k + 1.
Widths == {(GlyphW * k) + 1 : k \in 0..MaxFit}
Heights == {GlyphH, (GlyphH * MaxScale) + 1}
Scales == 1..MaxScale

\* The vertices of the triangle button of Spec.
ButtonTriangle == <<0, 0, 40, 0, 20, 30>>

\* What the display shows of the button: the body's fill and outline, and the
\* colour of the label that is a child of the group.
Attached(b, g) == b._label.t = "label" /\ \E i \in 1..Len(g) : g[i] = b._label.id

NotShown == [t |-> "notshown"]

Displayed(b, g) ==
    [fill |-> IF b.body.t = "none" THEN NotShown ELSE b.body.fill,
     outline |-> IF b.body.t = "none" THEN NotShown ELSE b.body.outline,
     label |-> IF Attached(b, g) THEN b._label.color ELSE NotShown]

\* last records the call just made: the operation, its argument, the exception
\* raised ("ok" for none), whether the style hook was invoked, and in before
\* what was displayed before a selected = True made in the Normal state (kept
\* over a selected = False that follows it at once).
NoSnap == [t |-> "nosnap"]

Called(op, arg, o) ==
    [op |-> op, arg |-> arg, err |-> o.err, hook |-> o.hook,
     before |-> IF op = "selected" /\ arg /\ ~btn._selected
                   THEN Displayed(btn, group)
                ELSE IF op = "selected" /\ last.op = "selected" /\ last.arg
                   THEN last.before
                ELSE NoSnap]

Init ==
    /\ pc = "new"
    /\ btn = IdleBtn
    /\ group = <<>>
    /\ last = IdleLast
    /\ ColorIdle
    /\ ContainsIdle

ConstructButtonBase ==
    /\ pc = "new"
    /\ \E width \in Widths, height \in Heights, label \in TextArgs,
          label_color \in BaseLabelColorIn, selected_label \in ColorIn,
          label_scale \in Scales :
          /\ btn' = ButtonBase_init("ButtonBase", width, height, label, label_color,
                                    selected_label, label_scale)
          /\ group' = <<>>
          /\ last' = [op |-> "init",
                      arg |-> [label |-> label, label_color |-> label_color,
                               selected_label |-> selected_label,
                               fill_color |-> None, outline_color |-> None,
                               selected_fill |-> None, selected_outline |-> None],
                      err |-> "ok", hook |-> FALSE, before |-> NoSnap]
    /\ pc' = "live"
    /\ UNCHANGED <<ccVars, ctVars>>

ConstructTriangleButton ==
    /\ pc = "new"
    /\ \E label \in TriangleTextArgs, label_color \in ColorIn, selected_label \in ColorIn,
          fill_color \in ColorIn, outline_color \in ColorIn,
          selected_fill \in ColorIn, selected_outline \in ColorIn,
          selfTrue \in BOOLEAN :
          LET o == TriangleButton_init(ButtonTriangle, label, label_color, selected_label,
                                       1, fill_color, outline_color, selected_fill,
                                       selected_outline, selfTrue)
          IN  /\ selfTrue \in GroupBool(IF IsNone(fill_color) /\ IsNone(outline_color)
                                           THEN <<>> ELSE <<BodyNode>>)
              /\ btn' = o.b
              /\ group' = o.g
              /\ last' = [op |-> "init",
                          arg |-> [label |-> label, label_color |-> label_color,
                                   selected_label |-> selected_label,
                                   fill_color |-> fill_color,
                                   outline_color |-> outline_color,
                                   selected_fill |-> selected_fill,
                                   selected_outline |-> selected_outline],
                          err |-> o.err, hook |-> o.hook, before |-> NoSnap]
              /\ pc' = IF o.err = "ok" THEN "live" ELSE "failed"
    /\ UNCHANGED <<ccVars, ctVars>>

SetLabel ==
    /\ pc = "live"
    /\ \E newtext \in (IF btn.cls = "TriangleButton" THEN TriangleTextArgs ELSE TextArgs),
          selfTrue \in GroupBool(group) :
          LET o == label_setter(btn, group, newtext, selfTrue)
          IN  btn' = o.b /\ group' = o.g /\ last' = Called("label", newtext, o)
    /\ UNCHANGED <<pc, ccVars, ctVars>>

SetSelected ==
    /\ pc = "live"
    /\ \E value \in BOOLEAN :
          LET o == selected_setter(btn, group, value)
          IN  btn' = o.b /\ group' = o.g /\ last' = Called("selected", value, o)
    /\ UNCHANGED <<pc, ccVars, ctVars>>

SetLabelColor ==
    /\ pc = "live"
    /\ \E c \in ColorIn :
          LET o == label_color_setter(btn, group, c)
          IN  btn' = o.b /\ group' = o.g /\ last' = Called("label_color", c, o)
    /\ UNCHANGED <<pc, ccVars, ctVars>>

SetSelectedLabel ==
    /\ pc = "live"
    /\ \E c \in ColorIn :
          LET o == selected_label_setter(btn, group, c)
          IN  btn' = o.b /\ group' = o.g /\ last' = Called("selected_label", c, o)
    /\ UNCHANGED <<pc, ccVars, ctVars>>

SetFillColor ==
    /\ pc = "live" /\ btn.cls = "TriangleButton"
    /\ \E c \in ColorIn :
          LET o == fill_color_setter(btn, group, c)
          IN  btn' = o.b /\ group' = o.g /\ last' = Called("fill_color", c, o)
    /\ UNCHANGED <<pc, ccVars, ctVars>>

SetOutlineColor ==
    /\ pc = "live" /\ btn.cls = "TriangleButton"
    /\ \E c \in ColorIn :
          LET o == outline_color_setter(btn, group, c)
          IN  btn' = o.b /\ group' = o.g /\ last' = Called("outline_color", c, o)
    /\ UNCHANGED <<pc, ccVars, ctVars>>

SetSelectedFill ==
    /\ pc = "live" /\ btn.cls = "TriangleButton"
    /\ \E c \in ColorIn :
          LET o == selected_fill_setter(btn, group, c)
          IN  btn' = o.b /\ group' = o.g /\ last' = Called("selected_fill", c, o)
    /\ UNCHANGED <<pc, ccVars, ctVars>>

SetSelectedOutline ==
    /\ pc = "live" /\ btn.cls = "TriangleButton"
    /\ \E c \in ColorIn :
          LET o == selected_outline_setter(btn, group, c)
          IN  btn' = o.b /\ group' = o.g /\ last' = Called("selected_outline", c, o)
    /\ UNCHANGED <<pc, ccVars, ctVars>>

Next ==
    \/ ConstructButtonBase
    \/ ConstructTriangleButton
    \/ SetLabel
    \/ SetSelected
    \/ SetLabelColor
    \/ SetSelectedLabel
    \/ SetFillColor
    \/ SetOutlineColor
    \/ SetSelectedFill
    \/ SetSelectedOutline

Spec == Init /\ [][Next]_vars

(***************************************************************************)
(* Claims about the button.                                                *)
(***************************************************************************)
\* C1: for a button in the Normal state, selected = True followed at once by
\* selected = False leaves the body's fill and outline and the attached label's
\* colour equal to what they were before the two calls.
C1_SelectRoundTrip ==
    (pc = "live" /\ last.op = "selected" /\ ~last.arg /\ last.before # NoSnap) =>
        Displayed(btn, group) = last.before

\* A selected = True, selected = False pair that changed and restored all three.
C1_Witness ==
    /\ pc = "live" /\ last.op = "selected" /\ ~last.arg /\ last.before # NoSnap
    /\ last.hook
    /\ btn.body.t = "triangle" /\ Attached(btn, group)
    /\ btn._fill_color # btn._selected_fill
    /\ btn._outline_color # btn._selected_outline
    /\ btn._label_color # btn._selected_label

\* C2: setting selected to the value it has is a no-op: the flag, the label's
\* colour, the body's fill and outline and every stored colour are unchanged,
\* and _subclass_selected_behavior is not invoked.
C2_SameValueNoOp ==
    [][(pc = "live" /\ last'.op = "selected" /\ last'.arg = btn._selected) =>
          (btn' = btn /\ group' = group /\ last'.err = "ok" /\ ~last'.hook)]_vars

\* A selected = True made on a selected button with a body and a label.
C2_Witness ==
    /\ pc = "live" /\ last.op = "selected" /\ last.err = "ok" /\ ~last.hook
    /\ last.arg = btn._selected /\ btn._selected
    /\ btn.body.t = "triangle" /\ Attached(btn, group)

ColourAndSelectedSetters ==
    {"label_color", "selected_label", "fill_color", "outline_color",
     "selected_fill", "selected_outline", "selected"}

\* C7: in every reachable state, a button without a label or without a body
\* included, each colour setter and the selected setter completes without
\* raising.
C7_SettersNeverRaise ==
    (pc = "live" /\ last.op \in ColourAndSelectedSetters) => last.err = "ok"

\* The box holds a text of n characters at the button's label scale.
FitsBox(b, n) ==
    /\ GlyphW * n * b._label_scale < b.width
    /\ GlyphH * b._label_scale < b.height

\* A label set on a ButtonBase with a non-empty text and a label colour configured.
BaseLabelSet ==
    /\ pc = "live" /\ btn.cls = "ButtonBase" /\ last.op = "label"
    /\ ~Falsy(last.arg) /\ ~IsNone(btn._label_color)

CutTo(text, k) ==
    IF k = Len(text) THEN text ELSE Append(SubSeq(text, 1, k - 1), Dot)

DefaultSelected(base) == IntC(Mask24 - _check_color(base).v)

\* C9: for each of fill, outline and label: when the selected variant was not
\* given to the constructor and the base colour is not None, the selected variant
\* is (~base) & 0xFFFFFF after construction, with or without a label text.
C9_SelectedDefaultsToComplement ==
    (pc = "live" /\ last.op = "init" /\ btn.cls = "TriangleButton") =>
        /\ (IsNone(last.arg.selected_fill) /\ ~IsNone(last.arg.fill_color)) =>
              btn._selected_fill = DefaultSelected(last.arg.fill_color)
        /\ (IsNone(last.arg.selected_outline) /\ ~IsNone(last.arg.outline_color)) =>
              btn._selected_outline = DefaultSelected(last.arg.outline_color)
        /\ (IsNone(last.arg.selected_label) /\ ~IsNone(last.arg.label_color)) =>
              btn._selected_label = DefaultSelected(last.arg.label_color)

\* C11: whenever a label is attached, its colour is selected_label if the button
\* is selected and label_color otherwise: a set of label_color or selected_label
\* reaches the live label exactly when the button is in the state that uses the
\* colour, and a label set while selected is shown in the selected label colour.
C11_LabelShowsStateColour ==
    (pc = "live" /\ Attached(btn, group)) =>
        btn._label.color = IF btn._selected THEN btn._selected_label
                                            ELSE btn._label_color

\* C12: for a TriangleButton that has a body, the body's fill is selected_fill
\* when the button is selected and fill_color otherwise, and its outline is
\* selected_outline when selected and outline_color otherwise.
C12_BodyShowsStateColours ==
    (pc = "live" /\ btn.cls = "TriangleButton" /\ btn.body.t = "triangle") =>
        /\ btn.body.fill = IF btn._selected THEN btn._selected_fill ELSE btn._fill_color
        /\ btn.body.outline = IF btn._selected THEN btn._selected_outline
                                               ELSE btn._outline_color

\* A fill_color set on a Normal button with a body changed the fill shown.
C12_Witness ==
    /\ pc = "live" /\ btn.cls = "TriangleButton" /\ btn.body.t = "triangle"
    /\ last.op = "fill_color" /\ last.err = "ok" /\ ~btn._selected
    /\ btn.body.fill = _check_color(last.arg)
    /\ btn.body.fill # btn._selected_fill
    /\ btn.body.fill # btn.body.outline

\* The positions of the group's children that are label nodes.
LabelNodes(g) == {i \in 1..Len(g) : g[i] # BodyNode}

\* A label set that asks for no label: an empty or absent text, or no label colour.
NoLabelSet == last.op = "label" /\ (Falsy(last.arg) \/ IsNone(btn._label_color))

\* C13: after any sequence of label sets, failed ones included, the group holds at
\* most one label node, it is the last child and it is the node of the most recent
\* successful non-empty label set; after a label set with an empty or absent text,
\* or with label colour None, the group holds no label node and the label query
\* returns None; a body that was appended is still the first child.
C13_OneLabelNodeLast ==
    pc = "live" =>
        /\ Cardinality(LabelNodes(group)) <= 1
        /\ \A i \in LabelNodes(group) :
              i = Len(group) /\ btn._label.t = "label" /\ group[i] = btn._label.id
        /\ (last.op = "label" /\ last.err = "ok" /\ ~NoLabelSet) =>
              /\ LabelNodes(group) # {}
              /\ btn._label.text[1] = last.arg.s[1]
        /\ NoLabelSet => (LabelNodes(group) = {} /\ label_getter(btn) = None)
        /\ btn.body.t = "triangle" => (group # <<>> /\ group[1] = BodyNode)

(***************************************************************************)
(* The truncation loop of ButtonBase's label setter (button_base.py        *)
(* 104-113), one step per test of a condition and per pass of the loop     *)
(* body.  btn is the button in the middle of a label set, after line 103:  *)
(* btn._label is the Label just made, not yet appended.  last counts the   *)
(* passes made over the text the set was called with.                      *)
(***************************************************************************)
MaxText == 6

LoopTexts == {Text(n) : n \in 1..MaxText}

InitTruncate ==
    /\ pc = "made"
    /\ \E width \in Widths, height \in Heights, text \in LoopTexts, label_scale \in Scales :
          /\ btn = [ButtonBase_init("ButtonBase", width, height, NoneText, IntC(65280),
                                    None, label_scale)
                       EXCEPT !._label = Label(1, text, label_scale)]
          /\ last = [op |-> "truncate", arg |-> Str(text), iter |-> 0]
    /\ group = <<>>
    /\ ColorIdle
    /\ ContainsIdle

\* Line 104: the if around the loop.
TruncateEnter ==
    /\ pc = "made"
    /\ pc' = IF Oversized(btn, btn._label) THEN "while" ELSE "placed"
    /\ UNCHANGED <<btn, group, last, ccVars, ctVars>>

\* Lines 105-111: the condition holds and the body runs once.
TruncateIter ==
    /\ pc = "while"
    /\ Len(btn._label.text) > 1 /\ Oversized(btn, btn._label)
    /\ btn' = [btn EXCEPT !._label.text = Truncated(btn._label.text)]
    /\ last' = [last EXCEPT !.iter = last.iter + 1]
    /\ UNCHANGED <<pc, group, ccVars, ctVars>>

\* Lines 105 and 112-113: the condition fails; the set raises RuntimeError when the
\* text is down to one character and goes on to place the label otherwise.
TruncateExit ==
    /\ pc = "while"
    /\ ~(Len(btn._label.text) > 1 /\ Oversized(btn, btn._label))
    /\ pc' = IF Len(btn._label.text) <= 1 THEN "raised" ELSE "placed"
    /\ UNCHANGED <<btn, group, last, ccVars, ctVars>>

NextTruncate ==
    \/ TruncateEnter
    \/ TruncateIter
    \/ TruncateExit

\* The setter is straight-line code run by one thread: a step that can be taken
\* is taken.
SpecTruncate == InitTruncate /\ [][NextTruncate]_vars /\ WF_vars(NextTruncate)

\* The loop has been left.
TruncateDone == pc \in {"raised", "placed"}

\* C14: the truncation loop terminates for every text and box; each pass replaces
\* the last two characters of the current text with one ".", so the length goes
\* down by exactly one; a pass is made only while the length is > 1 and the text
\* is oversized; and at most len(text) - 1 passes are made.
C14_TruncationTerminates ==
    /\ <>TruncateDone
    /\ [](last.iter <= Len(last.arg.s) - 1)
    /\ [][last'.iter # last.iter =>
            LET text == btn._label.text
            IN  /\ last'.iter = last.iter + 1
                /\ Len(text) > 1 /\ ~FitsBox(btn, Len(text))
                /\ btn'._label.text = Append(SubSeq(text, 1, Len(text) - 2), Dot)
                /\ Len(btn'._label.text) = Len(text) - 1]_vars

\* A text of four or more characters was cut down to one: len(text) - 1 passes.
C14_Witness ==
    /\ pc = "raised"
    /\ Len(last.arg.s) >= 4
    /\ last.iter = Len(last.arg.s) - 1
    /\ btn._label.text = <<Dot>>

(***************************************************************************)
(* contains (triangle_button.py 257-292, triangle_button_base.py 222-257). *)
(*                                                                         *)
(* _calc_area returns abs(n / 2.0) for an integer n.  A float holds every  *)
(* multiple of 0.5 below 2^52 exactly, and so every sum of them the hit    *)
(* test forms, so an area is modelled by the integer number of halves it   *)
(* holds: the float 1.5 is 3.                                              *)
(***************************************************************************)
calc_area_noabs(x0, y0, x1, y1, x2, y2) ==
    (x0 * (y1 - y2)) + (x1 * (y2 - y0)) + (x2 * (y0 - y1))

_calc_area(x0, y0, x1, y1, x2, y2) ==
    Abs((x0 * (y1 - y2)) + (x1 * (y2 - y0)) + (x2 * (y0 - y1)))

\* The arguments of contains: a tuple (x, y), a list [x, y] of ints, or a list
\* of touch dicts {"x": x, "y": y} (the batch form), which may be empty.
TupleArg(x, y) == [t |-> "tuple", x |-> x, y |-> y]
IntListArg(x, y) == [t |-> "intlist", x |-> x, y |-> y]
TouchListArg(s) == [t |-> "touches", items |-> s]

Returns(v) == [err |-> "ok", value |-> v]
Raises(e) == [err |-> e, value |-> FALSE]

\* Lines 263-269 (and 284-290): the area test on one point.
area_test(T, point_x, point_y) ==
    LET area == _calc_area(T[1], T[2], T[3], T[4], T[5], T[6])
        area_pbc == _calc_area(point_x, point_y, T[3], T[4], T[5], T[6])
        area_apc == _calc_area(T[1], T[2], point_x, point_y, T[5], T[6])
        area_abp == _calc_area(T[1], T[2], T[3], T[4], point_x, point_y)
    IN  area = area_pbc + area_apc + area_abp

contains_degenerate_guard(T, point) ==
    IF _calc_area(T[1], T[2], T[3], T[4], T[5], T[6]) = 0
        THEN Returns(FALSE)
    ELSE IF point.t \in {"tuple", "intlist"}
        THEN Returns(area_test(T, point.x, point.y))
    ELSE IF point.items = <<>>
        THEN Raises("IndexError")
    ELSE Returns(\E i \in 1..Len(point.items) :
                    area_test(T, point.items[i].x, point.items[i].y))

contains(T, point) ==
    IF point.t = "tuple"
        THEN Returns(area_test(T, point.x, point.y))
    ELSE IF point.t = "touches" /\ point.items = <<>>
        \* isinstance(point, list) and isinstance(point[0], int): point[0] of []
        THEN Raises("IndexError")
    ELSE IF point.t = "intlist"
        THEN Returns(area_test(T, point.x, point.y))
    ELSE \* the elif branch: the first touch that passes the test returns True
        Returns(\E i \in 1..Len(point.items) :
                    area_test(T, point.items[i].x, point.items[i].y))

(***************************************************************************)
(* SpecContains: a triangle button is built on vertices drawn from         *)
(* 0..MaxCoord, then contains is called once.                              *)
(***************************************************************************)
Coords == 0..MaxCoord
QueryCoords == (-1)..(MaxCoord + 1)
Triangles == {<<a, b, c, d, e, f>> : a \in Coords, b \in Coords, c \in Coords,
                                     d \in Coords, e \in Coords, f \in Coords}
             \cup {ButtonTriangle}
Touch(x, y) == [x |-> x, y |-> y]

\* Touches of a batch: the first vertex, the midpoint-side lattice point (1, 1)
\* and a point outside every bounding box.
TouchSamples(T) == {Touch(T[1], T[2]), Touch(1, 1), Touch(-1, MaxCoord + 1)}

RECURSIVE SeqsUpTo(_, _)
SeqsUpTo(S, n) ==
    IF n = 0 THEN {<<>>}
    ELSE LET shorter == SeqsUpTo(S, n - 1)
         IN  shorter \cup {Append(s, e) : s \in shorter, e \in S}

Queries(T) ==
    {TupleArg(x, y) : x \in QueryCoords, y \in QueryCoords}
    \cup {TupleArg(20, 10), TupleArg(0, 30)}
    \cup {IntListArg(p.x, p.y) : p \in TouchSamples(T)}
    \cup {TouchListArg(s) : s \in SeqsUpTo(TouchSamples(T), MaxTouches)}

InitContains ==
    /\ BtnIdle
    /\ ColorIdle
    /\ ct_pc = "built"
    /\ tri \in Triangles
    /\ query = None
    /\ result = None

ContainsCall ==
    /\ ct_pc = "built"
    /\ \E q \in Queries(tri) :
          /\ query' = q
          /\ result' = contains(tri, q)
    /\ ct_pc' = "done"
    /\ UNCHANGED <<tri, btnVars, ccVars>>

NextContains == ContainsCall

SpecContains == InitContains /\ [][NextContains]_vars

(***************************************************************************)
(* Geometry the claims speak of, stated by orientation signs rather than   *)
(* by areas.                                                               *)
(***************************************************************************)
\* Twice the signed area of (a, b, p): > 0 when p is left of the line a -> b.
Cross(ax, ay, bx, by, px, py) == ((bx - ax) * (py - ay)) - ((by - ay) * (px - ax))

Collinear(T) == Cross(T[1], T[2], T[3], T[4], T[5], T[6]) = 0

Sides(T, px, py) ==
    << Cross(T[1], T[2], T[3], T[4], px, py),
       Cross(T[3], T[4], T[5], T[6], px, py),
       Cross(T[5], T[6], T[1], T[2], px, py) >>

StrictlyInside(T, px, py) ==
    LET s == Sides(T, px, py)
    IN  \/ (s[1] > 0 /\ s[2] > 0 /\ s[3] > 0)
        \/ (s[1] < 0 /\ s[2] < 0 /\ s[3] < 0)

InsideOrOnBoundary(T, px, py) ==
    LET s == Sides(T, px, py)
    IN  \/ (s[1] >= 0 /\ s[2] >= 0 /\ s[3] >= 0)
        \/ (s[1] <= 0 /\ s[2] <= 0 /\ s[3] <= 0)

OutsideBoundingBox(T, px, py) ==
    \/ px < Min3(T[1], T[3], T[5]) \/ px > Max3(T[1], T[3], T[5])
    \/ py < Min3(T[2], T[4], T[6]) \/ py > Max3(T[2], T[4], T[6])

\* The point lies on the line through each pair of vertices.
OnVertexLines(T, px, py) ==
    /\ Cross(T[1], T[2], T[3], T[4], px, py) = 0
    /\ Cross(T[3], T[4], T[5], T[6], px, py) = 0
    /\ Cross(T[1], T[2], T[5], T[6], px, py) = 0

SinglePoint == ct_pc = "done" /\ query.t \in {"tuple", "intlist"}
Batch == ct_pc = "done" /\ query.t = "touches"

\* C3: for a triangle with non-collinear integer vertices and an integer point
\* in single-point form, contains is true when the point is strictly inside or
\* on the boundary, and false when it is outside the bounding box.
C3_ContainsSinglePoint ==
    (SinglePoint /\ ~Collinear(tri)) =>
        /\ result.err = "ok"
        /\ InsideOrOnBoundary(tri, query.x, query.y) => result.value
        /\ OutsideBoundingBox(tri, query.x, query.y) => ~result.value

\* A point strictly inside a non-degenerate triangle, found contained.
C3_Witness ==
    /\ SinglePoint /\ ~Collinear(tri)
    /\ StrictlyInside(tri, query.x, query.y)
    /\ result = Returns(TRUE)

\* C4: for every sequence s given in batch form, contains is true exactly when
\* some point of s satisfies the single-point contains; contains([]) is false
\* and does not raise; contains([p]) equals contains(p).
C4_ContainsBatch ==
    Batch =>
        /\ result.err = "ok"
        /\ result.value =
              (\E i \in 1..Len(query.items) :
                  contains(tri, TupleArg(query.items[i].x, query.items[i].y)).value)

\* The points a query holds.
PointsOf(q) ==
    IF q.t = "touches"
        THEN {<<q.items[i].x, q.items[i].y>> : i \in 1..Len(q.items)}
        ELSE {<<q.x, q.y>>}

\* C10 as claimed: for a degenerate triangle (collinear vertices) contains is
\* false for every query point.
C10_DegenerateAlwaysFalse ==
    (ct_pc = "done" /\ Collinear(tri) /\ PointsOf(query) # {}) => ~result.value

\* C10 as amended: for a degenerate triangle, contains (of a point, or of a
\* non-empty batch) is true exactly when a query point lies on the line through
\* every pair of vertices, and false for every other query point.
C10_DegenerateOnLineOnly ==
    (ct_pc = "done" /\ Collinear(tri) /\ PointsOf(query) # {}) =>
        /\ result.err = "ok"
        /\ result.value = (\E p \in PointsOf(query) : OnVertexLines(tri, p[1], p[2]))

\* A point off the line of a degenerate triangle, within its bounding box.
C10_Witness ==
    /\ ct_pc = "done" /\ Collinear(tri)
    /\ tri[1] # tri[3]
    /\ query.t = "tuple"
    /\ ~OnVertexLines(tri, query.x, query.y)
    /\ ~OutsideBoundingBox(tri, query.x, query.y)
    /\ result = Returns(FALSE)

====
